---- MODULE Spec2Model ----
(***************************************************************************)
(* One run of scripts/build-index.cjs (LizardByte/app-directory): the app  *)
(* loader with its best-effort GitHub enrichment, the per-project index    *)
(* builder, the master index builder and the artifact writes.              *)
(*                                                                         *)
(* Files are modelled by their parsed content; ids, names and URLs are     *)
(* strings, so that namespacing, URL parsing, the owner/repo pattern and   *)
(* the name comparison are computed on characters.  The `updated`          *)
(* timestamp of an artifact is left out: nothing below reads it.           *)
(***************************************************************************)
EXTENDS Integers, Sequences, FiniteSets, TLC

VARIABLES
    appFiles,     \* content of the files glob('apps/**/*.json') returns, in discovery order
    projects,     \* the directories under projects/, in discovery order
    distExists,   \* whether the dist directory exists
    unwritable,   \* the paths at which mkdirSync / writeFileSync throws
    pc,           \* position of buildIndexes
    fileIdx,      \* loop index of loadAllApps
    projIdx,      \* loop index of the project loop of buildIndexes
    allApps,      \* the array loadAllApps builds and every builder reads
    fetched,      \* per processed app file: what the loader asked of fetchGitHubMetadata
    written,      \* files written by this run: path -> artifact
    ioErrors,     \* paths whose mkdirSync / writeFileSync threw
    log,          \* console output, one entry per message
    exitCode      \* completion status of the node process (process.exitCode, 0 by default)

vars == <<appFiles, projects, distExists, unwritable, pc, fileIdx, projIdx, allApps,
          fetched, written, ioErrors, log, exitCode>>

-----------------------------------------------------------------------------
(* Bounds of the model *)

MaxFiles == 2         \* app files in the error-handling runs
MaxLoadFiles == 2     \* app files in the loader runs
MaxFilterFiles == 2   \* app files in the filter runs
MaxSortFiles == 3     \* app files in the sorting runs
MaxIndexFiles == 2    \* app files in the namespacing and counting runs

-----------------------------------------------------------------------------
(* Strings *)

Min(S) == CHOOSE x \in S : \A y \in S : x <= y

SeqsUpTo(S, n) == UNION {[1..k -> S] : k \in 0..n}

CharAt(s, i) == SubSeq(s, i, i)

\* position of c in the one-character-per-entry string `order`, 0 when absent
Rank(c, order) ==
    LET hits == {i \in 1..Len(order) : CharAt(order, i) = c}
    IN  IF hits = {} THEN 0 ELSE Min(hits)

\* String.prototype.indexOf(sub, from), 1-based; 0 when sub does not occur
IndexOf(s, sub, from) ==
    LET hits == {i \in from..(Len(s) - Len(sub) + 1) : SubSeq(s, i, i + Len(sub) - 1) = sub}
    IN  IF hits = {} THEN 0 ELSE Min(hits)

LowerLetters == "abcdefghijklmnopqrstuvwxyz"
UpperLetters == "ABCDEFGHIJKLMNOPQRSTUVWXYZ"

\* The characters of the model's names and URLs in increasing UTF-16 code unit order
CodeUnitOrder ==
    " -./0123456789:ABCDEFGHIJKLMNOPQRSTUVWXYZ_abcdefghijklmnopqrstuvwxyz"

\* The same characters, upper case left out, in the order of the root collation
\* (ICU, which Intl.Collator and localeCompare use by default): white space,
\* punctuation, digits, letters
CollationOrder ==
    " _-:./0123456789abcdefghijklmnopqrstuvwxyz"

Alphabet == {CharAt(CodeUnitOrder, i) : i \in 1..Len(CodeUnitOrder)}

\* String.prototype.toLowerCase, per character
LowerChar ==
    [c \in Alphabet |->
        IF Rank(c, UpperLetters) = 0 THEN c ELSE CharAt(LowerLetters, Rank(c, UpperLetters))]

IsUpper == [c \in Alphabet |-> Rank(c, UpperLetters) # 0]

CodeUnit == [c \in Alphabet |-> Rank(c, CodeUnitOrder)]

\* first-level collation weight: the place of the character, case ignored
CollationWeight == [c \in Alphabet |-> Rank(LowerChar[c], CollationOrder)]

RECURSIVE ToLowerCase(_)
ToLowerCase(s) ==
    IF Len(s) = 0 THEN s
    ELSE LowerChar[CharAt(s, 1)] \o ToLowerCase(SubSeq(s, 2, Len(s)))

\* lexicographic comparison of two sequences of numbers: -1, 0 or 1
RECURSIVE CompareKeys(_, _)
CompareKeys(k1, k2) ==
    IF Len(k1) = 0 /\ Len(k2) = 0 THEN 0
    ELSE IF Len(k1) = 0 THEN -1
    ELSE IF Len(k2) = 0 THEN 1
    ELSE IF Head(k1) < Head(k2) THEN -1
    ELSE IF Head(k1) > Head(k2) THEN 1
    ELSE CompareKeys(Tail(k1), Tail(k2))

CodeUnits(s) == [i \in 1..Len(s) |-> CodeUnit[CharAt(s, i)]]

\* the relational operator <= of two JavaScript strings (by code units)
StringLeq(s, t) == CompareKeys(CodeUnits(s), CodeUnits(t)) <= 0

PrimaryKey(s) == [i \in 1..Len(s) |-> CollationWeight[CharAt(s, i)]]
TertiaryKey(s) == [i \in 1..Len(s) |-> IF IsUpper[CharAt(s, i)] THEN 1 ELSE 0]

\* String.prototype.localeCompare in the default locale: base characters first
\* (collation order, case ignored), then lower case before upper case
LocaleCompare(a, b) ==
    LET p == CompareKeys(PrimaryKey(a), PrimaryKey(b))
    IN  IF p # 0 THEN p ELSE CompareKeys(TertiaryKey(a), TertiaryKey(b))

-----------------------------------------------------------------------------
(* File contents *)

Malformed == [state |-> "malformed"]
Missing == [state |-> "missing"]
Parsed(v) == [state |-> "ok", value |-> v]

Null == [isNull |-> TRUE]

\* a record with one more key, as the spread {...r, [k]: v}
With(r, k, v) == [x \in DOMAIN r \cup {k} |-> IF x = k THEN v ELSE r[x]]

Includes(list, x) == \E i \in 1..Len(list) : list[i] = x

-----------------------------------------------------------------------------
(* fetchGitHubMetadata *)

TrustedHost == "github.com"

\* new URL(repoUrl): throws unless the text has a scheme and a host (the URLs of
\* the model carry no port, credentials, query or fragment)
UrlParses(repoUrl) ==
    LET i == IndexOf(repoUrl, "://", 1)
    IN  /\ i > 1
        /\ i + 3 <= Len(repoUrl)
        /\ CharAt(repoUrl, i + 3) # "/"

\* new URL(repoUrl).hostname: the authority up to the first "/", lower-cased
Hostname(repoUrl) ==
    LET start == IndexOf(repoUrl, "://", 1) + 3
        slash == IndexOf(repoUrl, "/", start)
        stop  == IF slash = 0 THEN Len(repoUrl) ELSE slash - 1
    IN  ToLowerCase(SubSeq(repoUrl, start, stop))

\* whether /github\.com\/([^/]+)\/([^/]+)/ matches at position i of the raw text
RepoPatternAt(repoUrl, i) ==
    LET owner == i + Len(TrustedHost) + 1
        slash == IndexOf(repoUrl, "/", owner)
    IN  /\ owner - 1 <= Len(repoUrl)
        /\ SubSeq(repoUrl, i, owner - 1) = TrustedHost \o "/"
        /\ slash > owner
        /\ slash < Len(repoUrl)
        /\ CharAt(repoUrl, slash + 1) # "/"

RepoPatternMatches(repoUrl) == \E i \in 1..Len(repoUrl) : RepoPatternAt(repoUrl, i)

NetOutcomes == {"ok", "notOk", "fetchThrows", "jsonThrows"}

\* the projection of the response body the fetcher returns
Metadata == [stars |-> 1, openIssues |-> 0, forks |-> 0, lastUpdated |-> "t", license |-> "MIT"]

FetchGitHubMetadataBySubstring(repoUrl, net) ==
    IF repoUrl = "" THEN Null
    ELSE IF ~RepoPatternMatches(repoUrl) THEN Null
    ELSE IF net = "ok" THEN Metadata ELSE Null

\* the value the function resolves to; every throw inside its try ends in null
FetchGitHubMetadata(repoUrl, net) ==
    IF repoUrl = "" THEN Null
    ELSE IF ~UrlParses(repoUrl) THEN Null
    ELSE IF Hostname(repoUrl) # TrustedHost THEN Null
    ELSE IF ~RepoPatternMatches(repoUrl) THEN Null
    ELSE IF net = "ok" THEN Metadata ELSE Null

\* whether the call went through the catch, which logs a warning
FetchWarns(repoUrl, net) ==
    /\ repoUrl # ""
    /\ \/ ~UrlParses(repoUrl)
       \/ /\ Hostname(repoUrl) = TrustedHost
          /\ RepoPatternMatches(repoUrl)
          /\ net \in {"fetchThrows", "jsonThrows"}

-----------------------------------------------------------------------------
(* loadAllApps: one iteration of its loop *)

\* app.links?.github, "" when the fragment declares none
GithubLink(app) ==
    IF "links" \in DOMAIN app /\ "github" \in DOMAIN app.links THEN app.links.github ELSE ""

\* { ...app, ...(githubMetadata && { github: githubMetadata }) }
IndexEntry(app, githubMetadata) ==
    IF githubMetadata # Null THEN With(app, "github", githubMetadata) ELSE app

\* one console message: its level, its fixed text, what it names, the error it reports
Message(level, text, arg) == [level |-> level, text |-> text, arg |-> arg, detail |-> ""]
Failure(text, arg, detail) == [level |-> "error", text |-> text, arg |-> arg, detail |-> detail]

AppPath(i) == "apps/" \o ToString(i) \o ".json"

LoadApp ==
    /\ pc = "load"
    /\ fileIdx <= Len(appFiles)
    /\ LET file == appFiles[fileIdx]
       IN  IF file.state # "ok"
           THEN /\ log' = Append(log, Failure("Error processing", AppPath(fileIdx), "JSON.parse threw"))
                /\ fetched' = Append(fetched, [called |-> FALSE, net |-> "none", result |-> Null])
                /\ UNCHANGED allApps
           ELSE \E net \in NetOutcomes :
                LET app      == file.value
                    called   == GithubLink(app) # ""
                    metadata == IF called THEN FetchGitHubMetadata(GithubLink(app), net) ELSE Null
                IN  /\ called \/ net = "ok"      \* without a call there is no response to choose
                    /\ fetched' = Append(fetched,
                          [called |-> called, net |-> IF called THEN net ELSE "none",
                           result |-> metadata])
                    /\ allApps' = Append(allApps, IndexEntry(app, metadata))
                    /\ log' = IF ~called THEN log
                              ELSE LET asked == Append(log,
                                          Message("log", "Fetching GitHub metadata for", app.id))
                                   IN  IF FetchWarns(GithubLink(app), net)
                                       THEN Append(asked,
                                              Failure("Warning: Failed to fetch GitHub metadata",
                                                      app.id, net))
                                       ELSE asked
    /\ fileIdx' = fileIdx + 1
    /\ UNCHANGED <<appFiles, projects, distExists, unwritable, pc, projIdx, written,
                   ioErrors, exitCode>>

LoadDone ==
    /\ pc = "load"
    /\ fileIdx > Len(appFiles)
    /\ pc' = "projects"
    /\ log' = Append(log, Message("log", "Loaded apps", ToString(Len(allApps))))
    /\ UNCHANGED <<appFiles, projects, distExists, unwritable, fileIdx, projIdx, allApps,
                   fetched, written, ioErrors, exitCode>>

-----------------------------------------------------------------------------
(* Counting apps per category *)

JsNumber(n) == [type |-> "number", value |-> n]
JsString(s) == [type |-> "string", value |-> s]
JsFunction == [type |-> "function"]

\* Property names every object literal {} inherits from Object.prototype as
\* functions (those that can be spelled as a category id)
ObjectPrototypeKeys == {"constructor", "toString", "valueOf"}

\* what a name of ObjectPrototypeKeys reads as when it is concatenated to "1"
NativeSource(key) ==
    "function " \o (IF key = "constructor" THEN "Object" ELSE key) \o "() { [native code] }"

RECURSIVE Ones(_)
Ones(n) == IF n = 0 THEN "" ELSE "1" \o Ones(n - 1)

Occurrences(apps, key) == Cardinality({i \in 1..Len(apps) : apps[i].category = key})

\* categoryCounts[key] || 0, after
\*   categoryCounts = {}; apps.forEach(app =>
\*     categoryCounts[app.category] = (categoryCounts[app.category] || 0) + 1)
\* The first read of a key finds the inherited function when there is one, and
\* (function || 0) + 1 is a string concatenation.
CategoryCount(apps, key) ==
    LET n == Occurrences(apps, key)
    IN  IF key \notin ObjectPrototypeKeys THEN JsNumber(n)
        ELSE IF n = 0 THEN JsFunction
        ELSE JsString(NativeSource(key) \o Ones(n))

-----------------------------------------------------------------------------
(* Sorting *)

\* Array.prototype.toSorted(compareFn), with compare[j, i] the value of
\* compareFn(s[j], s[i]): a stable sort; element i goes after the elements that
\* compare lower and the equal ones that precede it
ToSorted(s, compare) ==
    LET before(i) == {j \in 1..Len(s) :
                        \/ compare[j, i] < 0
                        \/ compare[j, i] = 0 /\ j < i}
    IN  [k \in 1..Len(s) |-> s[CHOOSE i \in 1..Len(s) : Cardinality(before(i)) = k - 1]]

ProjectComparatorByNameOnly(a, b) == LocaleCompare(a.name, b.name)

ProjectComparator(a, b) ==
    IF a.featured /\ ~b.featured THEN -1
    ELSE IF ~a.featured /\ b.featured THEN 1
    ELSE LocaleCompare(a.name, b.name)

MasterComparator(a, b) ==
    IF a.featured /\ ~b.featured THEN -1
    ELSE IF ~a.featured /\ b.featured THEN 1
    ELSE LocaleCompare(a.name, b.name)

-----------------------------------------------------------------------------
(* buildProjectIndex *)

PROJECT_INDEX_VERSION == "0.1.0"
MASTER_INDEX_VERSION == "0.1.0"

\* projectConfig[key] && projectConfig[key].length > 0
HasList(projectConfig, key) == key \in DOMAIN projectConfig /\ Len(projectConfig[key]) > 0

FilterIncludeOnly(projectConfig, apps) ==
    LET keep(app) == Includes(projectConfig.include_only, app.id)
    IN  IF HasList(projectConfig, "include_only") THEN SelectSeq(apps, keep) ELSE apps

FilterExcludeAppsKeeping(projectConfig, apps) ==
    LET keep(app) == Includes(projectConfig.exclude_apps, app.id)
    IN  IF HasList(projectConfig, "exclude_apps") THEN SelectSeq(apps, keep) ELSE apps

FilterExcludeApps(projectConfig, apps) ==
    LET keep(app) == ~Includes(projectConfig.exclude_apps, app.id)
    IN  IF HasList(projectConfig, "exclude_apps") THEN SelectSeq(apps, keep) ELSE apps

FilterFeaturedCategories(projectConfig, apps) ==
    LET keep(app) == Includes(projectConfig.featured_categories, app.category)
    IN  IF HasList(projectConfig, "featured_categories") THEN SelectSeq(apps, keep) ELSE apps

FilterApps(projectConfig, apps) ==
    FilterFeaturedCategories(projectConfig,
        FilterExcludeApps(projectConfig,
            FilterIncludeOnly(projectConfig, apps)))

NamespaceWithoutSeparator(projectId, categoryId) == projectId \o categoryId

\* `${projectId}:${categoryId}`
Namespace(projectId, categoryId) == projectId \o ":" \o categoryId

NamespacedCategory(projectId, cat, count) ==
    With(With(With(cat, "id", Namespace(projectId, cat.id)), "originalId", cat.id),
         "count", count)

NamespacedAppLeftAsLoaded(projectId, app) == app

\* { ...app, category: `${projectId}:${app.category}` }
NamespacedApp(projectId, app) == With(app, "category", Namespace(projectId, app.category))

\* The shared array after a call of buildProjectIndex: the function works on a
\* copy ([...allApps]), filter returns new arrays and map builds new objects,
\* so no element of allApps is written
SharedAppsNamespacedInPlace(projectId, projectConfig, apps) ==
    [i \in 1..Len(apps) |->
        IF Len(FilterApps(projectConfig, <<apps[i]>>)) = 1
        THEN NamespacedApp(projectId, apps[i]) ELSE apps[i]]

SharedAppsAfterBuild(projectId, projectConfig, apps) == apps

ProjectDescription(projectConfig) ==
    IF "description" \in DOMAIN projectConfig THEN projectConfig.description ELSE ""

\* the value buildProjectIndex resolves to, or its throwing
BuildProjectIndex(projectId, projectConfig, apps, categoriesFile) ==
    LET projectApps == FilterApps(projectConfig, apps)
        defs        == categoriesFile.value.categories
        categories  == [k \in 1..Len(defs) |->
                          NamespacedCategory(projectId, defs[k],
                                             CategoryCount(projectApps, defs[k].id))]
        namespaced  == [k \in 1..Len(projectApps) |-> NamespacedApp(projectId, projectApps[k])]
    IN  IF categoriesFile.state = "missing" THEN [outcome |-> "null"]
        ELSE IF categoriesFile.state = "malformed" THEN [outcome |-> "throws"]
        ELSE [outcome |-> "index",
              index   |-> [version    |-> PROJECT_INDEX_VERSION,
                           project    |-> [id          |-> projectConfig.id,
                                           name        |-> projectConfig.name,
                                           description |-> ProjectDescription(projectConfig)],
                           apps       |-> ToSorted(namespaced,
                                            [i, j \in 1..Len(namespaced) |->
                                                ProjectComparator(namespaced[i], namespaced[j])]),
                           categories |-> categories]]

-----------------------------------------------------------------------------
(* The master index *)

\* the entries of one categories.json as the master loop sees them
MasterEntries(projectId, defs) ==
    [k \in 1..Len(defs) |->
        With(With(With(defs[k], "id", Namespace(projectId, defs[k].id)),
                  "originalId", defs[k].id), "project", projectId)]

\* categoryData after the loop over categoryFiles: the first entry of each
\* namespaced id, in insertion order
RECURSIVE CollectCategories(_, _)
CollectCategories(dirs, seen) ==
    IF Len(dirs) = 0 THEN seen
    ELSE LET entries == MasterEntries(Head(dirs).dir, Head(dirs).categoriesJson.value.categories)
             fresh(e) == ~\E k \in 1..Len(seen) : seen[k].id = e.id
             first    == SelectSeq(
                            [k \in 1..Len(entries) |->
                                [e |-> entries[k],
                                 dup |-> \E j \in 1..(k - 1) : entries[j].id = entries[k].id]],
                            LAMBDA x : ~x.dup /\ fresh(x.e))
         IN  CollectCategories(Tail(dirs), seen \o [k \in 1..Len(first) |-> first[k].e])

\* the directories glob('projects/*/categories.json') matches
CategoryFiles(dirs) == SelectSeq(dirs, LAMBDA d : d.categoriesJson.state # "missing")

MasterCategories(dirs, apps) ==
    LET data == CollectCategories(CategoryFiles(dirs), <<>>)
    IN  [k \in 1..Len(data) |-> With(data[k], "count", CategoryCount(apps, data[k].originalId))]

MasterIndex(dirs, apps) ==
    [version    |-> MASTER_INDEX_VERSION,
     apps       |-> ToSorted(apps, [i, j \in 1..Len(apps) |->
                                        MasterComparator(apps[i], apps[j])]),
     categories |-> MasterCategories(dirs, apps)]

-----------------------------------------------------------------------------
(* buildIndexes *)

DistDir == "dist"
ProjectPath(projectId) == "dist/" \o projectId \o ".json"
MasterPath == "dist/index.json"

\* the directories glob('projects/*/project.json') matches
ProjectFiles(dirs) == SelectSeq(dirs, LAMBDA d : d.projectJson.state # "missing")

\* lines 182-185: create dist when it is not there; a throw rejects buildIndexes
EnsureDist ==
    /\ pc = "start"
    /\ IF distExists
       THEN pc' = "load" /\ UNCHANGED <<distExists, ioErrors>>
       ELSE IF DistDir \in unwritable
       THEN pc' = "rejected" /\ ioErrors' = ioErrors \cup {DistDir} /\ UNCHANGED distExists
       ELSE pc' = "load" /\ distExists' = TRUE /\ UNCHANGED ioErrors
    /\ log' = IF pc' = "load" THEN Append(log, Message("log", "Loading all apps", "")) ELSE log
    /\ UNCHANGED <<appFiles, projects, unwritable, fileIdx, projIdx, allApps, fetched,
                   written, exitCode>>

\* lines 195-214: one iteration of the project loop, its try and its catch
BuildProject ==
    /\ pc = "projects"
    /\ projIdx <= Len(ProjectFiles(projects))
    /\ LET p    == ProjectFiles(projects)[projIdx]
           path == ProjectPath(p.dir)
           fail(detail) == Failure("Error building index for", p.dir, detail)
       IN  IF p.projectJson.state = "malformed"
           THEN /\ log' = Append(log, fail("JSON.parse threw"))
                /\ UNCHANGED <<allApps, written, ioErrors>>
           ELSE LET projectConfig == p.projectJson.value
                    r     == BuildProjectIndex(p.dir, projectConfig, allApps, p.categoriesJson)
                    begin == Append(log, Message("log", "Building index for project", p.dir))
                IN  /\ allApps' = SharedAppsAfterBuild(p.dir, projectConfig, allApps)
                    /\ IF r.outcome = "null"
                       THEN /\ log' = Append(begin,
                                        Message("error", "Categories file not found", p.dir))
                            /\ UNCHANGED <<written, ioErrors>>
                       ELSE IF r.outcome = "throws"
                       THEN /\ log' = Append(begin, fail("JSON.parse threw"))
                            /\ UNCHANGED <<written, ioErrors>>
                       ELSE IF path \in unwritable
                       THEN /\ log' = Append(begin, fail("writeFileSync threw"))
                            /\ ioErrors' = ioErrors \cup {path}
                            /\ UNCHANGED written
                       ELSE /\ log' = Append(begin, Message("log", "Built", path))
                            /\ written' = With(written, path, r.index)
                            /\ UNCHANGED ioErrors
    /\ projIdx' = projIdx + 1
    /\ UNCHANGED <<appFiles, projects, distExists, unwritable, pc, fileIdx, fetched, exitCode>>

\* lines 216-270: the master index; nothing here is inside a try
BuildMaster ==
    /\ pc = "projects"
    /\ projIdx > Len(ProjectFiles(projects))
    /\ LET files == CategoryFiles(projects)
           begin == Append(log, Message("log", "Building master index", ""))
       IN  IF \E k \in 1..Len(files) : files[k].categoriesJson.state = "malformed"
           THEN /\ pc' = "rejected"
                /\ log' = begin
                /\ UNCHANGED <<written, ioErrors>>
           ELSE IF MasterPath \in unwritable
           THEN /\ pc' = "rejected"
                /\ log' = begin
                /\ ioErrors' = ioErrors \cup {MasterPath}
                /\ UNCHANGED written
           ELSE /\ pc' = "resolved"
                /\ log' = Append(Append(begin, Message("log", "Built", MasterPath)),
                                 Message("log", "Build complete", ""))
                /\ written' = With(written, MasterPath, MasterIndex(projects, allApps))
                /\ UNCHANGED ioErrors
    /\ UNCHANGED <<appFiles, projects, distExists, unwritable, fileIdx, projIdx, allApps,
                   fetched, exitCode>>

\* The status node ends with once the promise of line 273 has settled: nothing
\* sets process.exitCode or calls process.exit, and a rejection of buildIndexes
\* is handled by .catch(console.error), whose promise is fulfilled, so no
\* unhandled rejection ends the process with a failure status either
ExitStatus(outcome) == 0

\* line 273: buildIndexes().catch(console.error); the handler logs the rejection
Settle ==
    /\ pc \in {"resolved", "rejected"}
    /\ pc' = "exited"
    /\ log' = IF pc = "rejected" THEN Append(log, Failure("", "", "rejection")) ELSE log
    /\ exitCode' = ExitStatus(pc)
    /\ UNCHANGED <<appFiles, projects, distExists, unwritable, fileIdx, projIdx, allApps,
                   fetched, written, ioErrors>>

Next == EnsureDist \/ LoadApp \/ LoadDone \/ BuildProject \/ BuildMaster \/ Settle

-----------------------------------------------------------------------------
(* Inputs *)

App(id, name, category, featured) ==
    [id |-> id, name |-> name, category |-> category, featured |-> featured]

Category(id) == [id |-> id, name |-> id]

\* a project configuration: id and name, and the filter lists it declares
Config(id, lists) == [k \in {"id", "name"} \cup DOMAIN lists |->
                        IF k \in {"id", "name"} THEN id ELSE lists[k]]

NoLists == [k \in {} |-> <<>>]
OneList(key, list) == [k \in {key} |-> list]

ProjectDir(name, projectJson, categoriesJson) ==
    [dir |-> name, projectJson |-> projectJson, categoriesJson |-> categoriesJson]

CategoriesFile(ids) == Parsed([categories |-> [k \in 1..Len(ids) |-> Category(ids[k])]])

\* the run starts with nothing loaded and nothing written
InitOver(fileSeqs, projectSeqs, distStates, unwritableSets) ==
    /\ appFiles \in fileSeqs
    /\ projects \in projectSeqs
    /\ distExists \in distStates
    /\ unwritable \in unwritableSets
    /\ pc = "start"
    /\ fileIdx = 1
    /\ projIdx = 1
    /\ allApps = <<>>
    /\ fetched = <<>>
    /\ written = <<>>
    /\ ioErrors = {}
    /\ log = <<>>
    /\ exitCode = 0

\* Two project directories; each project.json malformed or valid, each
\* categories.json missing, malformed or valid; any mkdir or write may throw
ErrorFiles == {Malformed, Parsed(App("alpha", "Alpha", "client", FALSE))}

ErrorProjectJsons(dir) == {Malformed, Parsed(Config(dir, NoLists))}

ErrorCategoriesJsons == {Missing, Malformed, CategoriesFile(<<"client">>)}

ErrorDirs(dir) ==
    {ProjectDir(dir, pj, cj) : pj \in ErrorProjectJsons(dir), cj \in ErrorCategoriesJsons}

ErrorProjects == {<<a, b>> : a \in ErrorDirs("sunshine"), b \in ErrorDirs("beta")}

OutputPaths == {DistDir, ProjectPath("sunshine"), ProjectPath("beta"), MasterPath}

Init ==
    InitOver(SeqsUpTo(ErrorFiles, MaxFiles), ErrorProjects, BOOLEAN,
             SUBSET OutputPaths)

Spec == Init /\ [][Next]_vars

-----------------------------------------------------------------------------
(* Error handling: C1, C2, C3 *)

HasValidConfig(d) == d.projectJson.state = "ok"
HasValidFiles(d) == d.projectJson.state = "ok" /\ d.categoriesJson.state = "ok"
WasWritten(path) == path \in DOMAIN written
Dirs == 1..Len(projects)

\* the run is over and no mkdir or write threw
EndedWithoutIoError == pc = "exited" /\ ioErrors = {}

\* C1: when a project's categories.json does not exist while its project.json is
\* valid, this run writes no dist/<projectId>.json for it, writes the index of every
\* other project whose files are valid, and writes dist/index.json.
C1_MissingCategoriesSkipsOnlyThatProject ==
    EndedWithoutIoError =>
        \A k \in Dirs :
            HasValidConfig(projects[k]) /\ projects[k].categoriesJson.state = "missing" =>
                /\ ~WasWritten(ProjectPath(projects[k].dir))
                /\ \A j \in Dirs \ {k} :
                      HasValidFiles(projects[j]) => WasWritten(ProjectPath(projects[j].dir))
                /\ WasWritten(MasterPath)

\* Lemma, the part of C1 the code keeps: the same statement for the runs in
\* which no categories.json is malformed, so that the master build, which reads
\* every categories.json unguarded, does not throw
MissingCategoriesSkipsOnlyThatProjectUnlessMalformed ==
    (\A k \in Dirs : projects[k].categoriesJson.state # "malformed") =>
        C1_MissingCategoriesSkipsOnlyThatProject

ParseableAppFiles == {i \in 1..Len(appFiles) : appFiles[i].state = "ok"}

MasterCategoryProjects ==
    IF WasWritten(MasterPath)
    THEN {written[MasterPath].categories[k].project :
            k \in 1..Len(written[MasterPath].categories)}
    ELSE {}

\* C2: a file that is not parseable JSON (app fragment, project.json or
\* categories.json) is skipped alone: every parseable fragment is loaded, every
\* project whose files are valid gets its index, and dist/index.json is written
\* with the categories of every project whose categories.json is valid.
C2_MalformedFileIsSkippedAlone ==
    EndedWithoutIoError =>
        /\ Len(allApps) = Cardinality(ParseableAppFiles)
        /\ \A k \in Dirs :
              HasValidFiles(projects[k]) => WasWritten(ProjectPath(projects[k].dir))
        /\ WasWritten(MasterPath)
        /\ \A k \in Dirs :
              /\ projects[k].categoriesJson.state = "ok"
              /\ Len(projects[k].categoriesJson.value.categories) > 0
              => projects[k].dir \in MasterCategoryProjects

\* Lemma, the part of C2 the code keeps: malformed app fragments and
\* project.json files are skipped alone, and so is a malformed categories.json
\* as far as the project indexes go
MalformedFileIsSkippedAloneBeforeMaster ==
    pc \in {"resolved", "rejected", "exited"} /\ ioErrors = {} =>
        /\ Len(allApps) = Cardinality(ParseableAppFiles)
        /\ \A k \in Dirs :
              HasValidFiles(projects[k]) => WasWritten(ProjectPath(projects[k].dir))

IsBuildStart(m) == m.text \in {"Building index for project", "Building master index"}
IsWriteFailure(m) == m.detail = "writeFileSync threw"

\* C3: when mkdir or a write of an artifact fails, the run is aborted (no later
\* project build, no master build) and the process ends with a non-zero status.
C3_IoErrorAbortsWithNonZeroStatus ==
    pc = "exited" /\ ioErrors # {} =>
        /\ exitCode # 0
        /\ \A i, j \in 1..Len(log) :
              i < j /\ IsWriteFailure(log[i]) => ~IsBuildStart(log[j])

\* the two halves of C3; the code breaks each of them
IoErrorEndsWithNonZeroStatus == pc = "exited" /\ ioErrors # {} => exitCode # 0
IoErrorStopsLaterBuilds ==
    \A i, j \in 1..Len(log) : i < j /\ IsWriteFailure(log[i]) => ~IsBuildStart(log[j])

-----------------------------------------------------------------------------
(* The loader and the metadata fetcher: C8 *)

GithubUrls ==
    { "https://github.com/foo/bar",
      "https://evil.com/github.com/foo/bar",
      "https://GitHub.com/foo/bar",
      "https://github.com/foo",
      "github.com/foo/bar",
      "" }

Alpha == App("alpha", "Alpha", "client", FALSE)

LoadFiles ==
    {Malformed, Parsed(Alpha), Parsed(With(Alpha, "links", [website |-> "https://alpha.dev"]))}
    \cup {Parsed(With(Alpha, "links", [github |-> u])) : u \in GithubUrls}

OneValidProject ==
    {<<ProjectDir("sunshine", Parsed(Config("sunshine", NoLists)),
                  CategoriesFile(<<"client">>))>>}

InitLoad == InitOver(SeqsUpTo(LoadFiles, MaxLoadFiles), OneValidProject, {TRUE}, {{}})

SpecLoad == InitLoad /\ [][Next]_vars

\* the files the loader has gone through, and the place in allApps of the record of file i
Processed == 1..Len(fetched)
LoadedIndex(i) == Cardinality({j \in 1..i : appFiles[j].state = "ok"})

DeclaresGithub(app) == "links" \in DOMAIN app /\ "github" \in DOMAIN app.links

\* C8: a parsed fragment's record carries a github key exactly when the fragment
\* declares links.github and fetchGitHubMetadata returned a non-null result; a
\* host other than the trusted one, a non-success response or an exception gives
\* null; the app is then still appended, with its own fields and no github key,
\* and every parsed fragment has its record whatever happened to the others.
C8_GithubKeyIffMetadataFetched ==
    /\ Len(allApps) = LoadedIndex(Len(fetched))
    /\ \A i \in Processed :
          appFiles[i].state = "ok" =>
              LET app  == appFiles[i].value
                  f    == fetched[i]
                  r    == allApps[LoadedIndex(i)]
                  null == f.result = Null
              IN  /\ ("github" \in DOMAIN r) <=> (DeclaresGithub(app) /\ f.called /\ ~null)
                  /\ "github" \in DOMAIN r => r.github = f.result
                  /\ DOMAIN app \subseteq DOMAIN r
                  /\ DOMAIN r \subseteq DOMAIN app \cup {"github"}
                  /\ \A k \in DOMAIN app : r[k] = app[k]
                  /\ f.called /\ ~UrlParses(app.links.github) => null
                  /\ f.called /\ UrlParses(app.links.github)
                        /\ Hostname(app.links.github) # "github.com" => null
                  /\ f.called /\ f.net # "ok" => null

\* an app whose link only contains the trusted host name, fetched with a success
\* response on offer, was loaded without a github key, and the next one with it
C8_Witness ==
    /\ Len(fetched) >= 2
    /\ appFiles[1].state = "ok" /\ appFiles[2].state = "ok"
    /\ GithubLink(appFiles[1].value) = "https://evil.com/github.com/foo/bar"
    /\ fetched[1].called /\ fetched[1].net = "ok"
    /\ "github" \notin DOMAIN allApps[1]
    /\ "github" \in DOMAIN allApps[2]

-----------------------------------------------------------------------------
(* The filter pipeline: C5 *)

FilterApps4 ==
    {App(id, id, category, FALSE) : id \in {"alpha", "zeta"}, category \in {"client", "tool"}}

OptionalList(key, lists) == {NoLists} \cup {OneList(key, l) : l \in lists}

FilterLists ==
    {a @@ b @@ c :
        a \in OptionalList("include_only", {<<>>, <<"alpha">>, <<"alpha", "zeta">>}),
        b \in OptionalList("exclude_apps", {<<>>, <<"zeta">>, <<"alpha">>}),
        c \in OptionalList("featured_categories", {<<>>, <<"client">>})}

FilterProjects ==
    {<<ProjectDir("sunshine", Parsed(Config("sunshine", lists)),
                  CategoriesFile(<<"client", "tool">>))>> : lists \in FilterLists}

InitFilter ==
    InitOver(SeqsUpTo({Parsed(a) : a \in FilterApps4}, MaxFilterFiles), FilterProjects,
             {TRUE}, {{}})

SpecFilter == InitFilter /\ [][Next]_vars

ListOf(projectConfig, key) == IF key \in DOMAIN projectConfig THEN projectConfig[key] ELSE <<>>

\* the three restrictions of a configuration, each void when its list is empty or absent
PassesFilters(projectConfig, app) ==
    LET includeOnly == ListOf(projectConfig, "include_only")
        excludeApps == ListOf(projectConfig, "exclude_apps")
        featured    == ListOf(projectConfig, "featured_categories")
    IN  /\ includeOnly = <<>> \/ Includes(includeOnly, app.id)
        /\ excludeApps = <<>> \/ ~Includes(excludeApps, app.id)
        /\ featured = <<>> \/ Includes(featured, app.category)

Elements(s) == {s[i] : i \in 1..Len(s)}
Times(s, x) == Cardinality({i \in 1..Len(s) : s[i] = x})
SameElements(s, t) ==
    Len(s) = Len(t) /\ \A x \in Elements(s) \cup Elements(t) : Times(s, x) = Times(t, x)

\* s is t with some entries left out, the others in their order
RECURSIVE IsSubsequence(_, _)
IsSubsequence(s, t) ==
    IF Len(s) = 0 THEN TRUE
    ELSE IF Len(t) = 0 THEN FALSE
    ELSE IF Head(s) = Head(t) THEN IsSubsequence(Tail(s), Tail(t))
    ELSE IsSubsequence(s, Tail(t))

\* C5: the apps of a project index are exactly the loaded apps that pass
\* include_only, then exclude_apps, then featured_categories (the original
\* category), an empty or absent list restricting nothing; no step adds an app and
\* no step's output is larger than its input.
C5_ProjectAppsAreTheFilteredApps ==
    \A k \in Dirs :
        WasWritten(ProjectPath(projects[k].dir)) =>
            LET projectConfig == projects[k].projectJson.value
                index    == written[ProjectPath(projects[k].dir)]
                passing  == SelectSeq(allApps, LAMBDA a : PassesFilters(projectConfig, a))
                expected == [i \in 1..Len(passing) |->
                               With(passing[i], "category",
                                    projects[k].dir \o ":" \o passing[i].category)]
                step1    == FilterIncludeOnly(projectConfig, allApps)
                step2    == FilterExcludeApps(projectConfig, step1)
                step3    == FilterFeaturedCategories(projectConfig, step2)
            IN  /\ SameElements(index.apps, expected)
                /\ IsSubsequence(step1, allApps) /\ Len(step1) <= Len(allApps)
                /\ IsSubsequence(step2, step1) /\ Len(step2) <= Len(step1)
                /\ IsSubsequence(step3, step2) /\ Len(step3) <= Len(step2)
                /\ step3 = passing

\* exclude_apps: ["zeta"] applied to the apps zeta and alpha left only alpha
C5_Witness ==
    /\ WasWritten(ProjectPath("sunshine"))
    /\ ListOf(projects[1].projectJson.value, "exclude_apps") = <<"zeta">>
    /\ {allApps[i].id : i \in 1..Len(allApps)} = {"alpha", "zeta"}
    /\ {written[ProjectPath("sunshine")].apps[i].id :
          i \in 1..Len(written[ProjectPath("sunshine")].apps)} = {"alpha"}

-----------------------------------------------------------------------------
(* Sorting: C7 *)

SortNames == {"Zeta", "alpha", "app_2", "app2"}

SortApps == {App("app", name, "client", featured) : name \in SortNames, featured \in BOOLEAN}

InitSort ==
    InitOver(SeqsUpTo({Parsed(a) : a \in SortApps}, MaxSortFiles), OneValidProject,
             {TRUE}, {{}})

SpecSort == InitSort /\ [][Next]_vars

Artifacts == {written[path] : path \in DOMAIN written}

FeaturedFirst(apps) ==
    \A i \in 1..(Len(apps) - 1) : apps[i].featured \/ ~apps[i + 1].featured

\* an app without the category field, which the project builder rewrites
SortKey(app) == [k \in DOMAIN app \ {"category"} |-> app[k]]
SortKeys(apps) == [i \in 1..Len(apps) |-> SortKey(apps[i])]

\* the project index of a configuration without filters and the master index
\* list the same apps: they must list them in the same order
SameOrderInBothIndexes ==
    WasWritten(ProjectPath("sunshine")) /\ WasWritten(MasterPath) =>
        SortKeys(written[ProjectPath("sunshine")].apps) = SortKeys(written[MasterPath].apps)

\* C7 as stated: in the apps of every index, featured apps come before the others
\* and, within the same featured value, the lower-cased name of an app is less
\* than or equal to the lower-cased name of the next; both builders order alike.
C7_SortedByFeaturedThenLowerCasedName ==
    /\ \A index \in Artifacts :
          /\ FeaturedFirst(index.apps)
          /\ \A i \in 1..(Len(index.apps) - 1) :
                index.apps[i].featured = index.apps[i + 1].featured =>
                    StringLeq(ToLowerCase(index.apps[i].name),
                              ToLowerCase(index.apps[i + 1].name))
    /\ SameOrderInBothIndexes

\* C7 as amended: within the same featured value the names are in the order of
\* localeCompare (no app is followed by one whose name collates before its own).
C7_SortedByFeaturedThenLocaleCompare ==
    /\ \A index \in Artifacts :
          /\ FeaturedFirst(index.apps)
          /\ \A i \in 1..(Len(index.apps) - 1) :
                index.apps[i].featured = index.apps[i + 1].featured =>
                    LocaleCompare(index.apps[i].name, index.apps[i + 1].name) <= 0
    /\ SameOrderInBothIndexes

\* featured "Zeta" was put before "alpha", loaded in the other order, and the
\* master index holds a pair of names in collation order, in both indexes
C7_Witness ==
    /\ WasWritten(ProjectPath("sunshine")) /\ WasWritten(MasterPath)
    /\ Len(allApps) = 3
    /\ allApps[1].name = "alpha" /\ ~allApps[1].featured
    /\ allApps[2].name = "Zeta" /\ allApps[2].featured
    /\ allApps[3].name = "app2" /\ ~allApps[3].featured
    /\ [i \in 1..3 |-> written[MasterPath].apps[i].name] = <<"Zeta", "alpha", "app2">>

-----------------------------------------------------------------------------
(* Namespacing, counts and the shared app set: C4, C6, C9, C10 *)

IndexApps ==
    {App(id, id, category, FALSE) :
        id \in {"alpha", "zeta"}, category \in {"client", "constructor"}}

IndexLists ==
    {NoLists, OneList("exclude_apps", <<"zeta">>), OneList("featured_categories", <<"client">>)}

\* the first directory: a project.json whose id is or is not the directory's
\* name, with or without filters; the second: with or without a usable
\* categories.json
IndexDirs1 ==
    {ProjectDir("sunshine", Parsed(Config(id, lists)), cj) :
        id \in {"sunshine", "sun"}, lists \in IndexLists,
        cj \in {Missing, Malformed, CategoriesFile(<<"client">>),
                CategoriesFile(<<"client", "constructor">>)}}

IndexDirs2 ==
    {ProjectDir("beta", Parsed(Config("beta", NoLists)), cj) :
        cj \in {Missing, Malformed, CategoriesFile(<<"client">>)}}

InitIndex ==
    InitOver(SeqsUpTo({Parsed(a) : a \in IndexApps}, MaxIndexFiles),
             {<<a, b>> : a \in IndexDirs1, b \in IndexDirs2}, {TRUE}, {{}})

SpecIndex == InitIndex /\ [][Next]_vars

CategoryIds(index) == {index.categories[k].id : k \in 1..Len(index.categories)}
OriginalIds(index) == {index.categories[k].originalId : k \in 1..Len(index.categories)}

\* the text left of `id` once the prefix `${projectId}:` is taken off
StripPrefix(projectId, id) == SubSeq(id, Len(projectId) + 2, Len(id))
HasPrefix(projectId, id) ==
    Len(id) > Len(projectId) /\ SubSeq(id, 1, Len(projectId) + 1) = projectId \o ":"

DefinedIn(dir, categoryId) ==
    /\ dir.categoriesJson.state = "ok"
    /\ \E k \in 1..Len(dir.categoriesJson.value.categories) :
          dir.categoriesJson.value.categories[k].id = categoryId

\* C4 as stated: in every artifact, the category of every app is the id of an
\* entry of the artifact's categories list.
C4_AppCategoryIsListedInArtifact ==
    \A index \in Artifacts :
        \A i \in 1..Len(index.apps) : index.apps[i].category \in CategoryIds(index)

\* C4 as amended: in a project index, every app's category carries the project
\* prefix, and it is the id of an entry of the categories list exactly when the
\* project's categories.json defines the app's original category; in the master index, where apps keep the original category, an
\* app whose category some project's categories.json defines has the originalId
\* of an entry of the categories list as its category.
C4_DefinedCategoryIsListed ==
    /\ \A k \in Dirs :
          WasWritten(ProjectPath(projects[k].dir)) =>
              LET index == written[ProjectPath(projects[k].dir)]
              IN  \A i \in 1..Len(index.apps) :
                     /\ HasPrefix(projects[k].dir, index.apps[i].category)
                     /\ DefinedIn(projects[k],
                                  StripPrefix(projects[k].dir, index.apps[i].category))
                           => index.apps[i].category \in CategoryIds(index)
                     /\ index.apps[i].category \in CategoryIds(index)
                           => DefinedIn(projects[k],
                                        StripPrefix(projects[k].dir, index.apps[i].category))
    /\ WasWritten(MasterPath) =>
          LET index == written[MasterPath]
          IN  \A i \in 1..Len(index.apps) :
                 (\E k \in Dirs : DefinedIn(projects[k], index.apps[i].category))
                     => index.apps[i].category \in OriginalIds(index)

\* a project index lists an app under a category its categories.json defines, and
\* the master index lists the same app under the original category
C4_Witness ==
    /\ WasWritten(ProjectPath("sunshine")) /\ WasWritten(MasterPath)
    /\ \E i \in 1..Len(written[ProjectPath("sunshine")].apps) :
          written[ProjectPath("sunshine")].apps[i].category = "sunshine:client"
    /\ "sunshine:client" \in CategoryIds(written[ProjectPath("sunshine")])
    /\ \E i \in 1..Len(written[MasterPath].apps) :
          written[MasterPath].apps[i].category = "client"

\* C6: the count of every category of the master index is the number of loaded
\* apps whose original category is the category's originalId.
C6_MasterCountIsNumberOfApps ==
    WasWritten(MasterPath) =>
        \A k \in 1..Len(written[MasterPath].categories) :
            LET c == written[MasterPath].categories[k]
            IN  c.count = JsNumber(Cardinality({i \in 1..Len(allApps) :
                                                  allApps[i].category = c.originalId}))

\* Lemma, the part of C6 the code keeps: the same, for the categories whose id
\* is not the name of a property inherited by every object
MasterCountIsNumberOfAppsForOwnKeys ==
    WasWritten(MasterPath) =>
        \A k \in 1..Len(written[MasterPath].categories) :
            LET c == written[MasterPath].categories[k]
            IN  c.originalId \notin {"constructor", "toString", "valueOf"} =>
                    c.count = JsNumber(Cardinality({i \in 1..Len(allApps) :
                                                      allApps[i].category = c.originalId}))

ConfigId(dir) == dir.projectJson.value.id

\* C9 as stated: the id of a namespaced category is the owning project's id, ":"
\* and its originalId, where the owning project's id is the project.id of the
\* project index holding the category and the project field in the master index,
\* and the same prefix is on the category of every app of the project index.
C9_PrefixIsProjectIdOfTheIndex ==
    /\ \A k \in Dirs :
          WasWritten(ProjectPath(projects[k].dir)) =>
              LET index == written[ProjectPath(projects[k].dir)]
              IN  /\ \A c \in Elements(index.categories) :
                        /\ c.id = index.project.id \o ":" \o c.originalId
                        /\ StripPrefix(index.project.id, c.id) = c.originalId
                  /\ \A a \in Elements(index.apps) : HasPrefix(index.project.id, a.category)
    /\ WasWritten(MasterPath) =>
          \A c \in Elements(written[MasterPath].categories) :
              /\ c.id = c.project \o ":" \o c.originalId
              /\ StripPrefix(c.project, c.id) = c.originalId

\* C9 as amended: the prefix is the name of the project's directory, which is
\* the project field in the master index; taking it off recovers originalId, and
\* it is on the category of every app of the project index; project.id of the
\* index is the id field of project.json.
C9_PrefixIsProjectDirectory ==
    /\ \A k \in Dirs :
          WasWritten(ProjectPath(projects[k].dir)) =>
              LET index == written[ProjectPath(projects[k].dir)]
                  defs  == projects[k].categoriesJson.value.categories
              IN  /\ Len(index.categories) = Len(defs)
                  /\ \A n \in 1..Len(defs) :
                        /\ index.categories[n].originalId = defs[n].id
                        /\ index.categories[n].id = projects[k].dir \o ":" \o defs[n].id
                        /\ StripPrefix(projects[k].dir, index.categories[n].id) = defs[n].id
                  /\ \A a \in Elements(index.apps) :
                        /\ HasPrefix(projects[k].dir, a.category)
                        /\ \E i \in 1..Len(allApps) :
                              StripPrefix(projects[k].dir, a.category) = allApps[i].category
                  /\ index.project.id = ConfigId(projects[k])
    /\ WasWritten(MasterPath) =>
          \A c \in Elements(written[MasterPath].categories) :
              /\ c.id = c.project \o ":" \o c.originalId
              /\ StripPrefix(c.project, c.id) = c.originalId
              /\ \E k \in Dirs : projects[k].dir = c.project /\ DefinedIn(projects[k], c.originalId)

\* a project whose project.json names it "sun" in the directory sunshine got its
\* index, with a category and an app under the prefix "sunshine:"
C9_Witness ==
    /\ WasWritten(ProjectPath("sunshine")) /\ WasWritten(MasterPath)
    /\ written[ProjectPath("sunshine")].project.id = "sun"
    /\ "sunshine:client" \in CategoryIds(written[ProjectPath("sunshine")])
    /\ \E i \in 1..Len(written[ProjectPath("sunshine")].apps) :
          written[ProjectPath("sunshine")].apps[i].category = "sunshine:client"
    /\ "beta:client" \in CategoryIds(written[MasterPath])

\* the records loadAllApps built, from the files and what each fetch returned
LoadedRecords ==
    LET ok == SelectSeq([i \in 1..Len(fetched) |-> i], LAMBDA i : appFiles[i].state = "ok")
    IN  [n \in 1..Len(ok) |->
            IF fetched[ok[n]].result = Null THEN appFiles[ok[n]].value
            ELSE With(appFiles[ok[n]].value, "github", fetched[ok[n]].result)]

\* C10: the project builds leave the loaded app set as loadAllApps made it
\* (whether they return an index, return null or throw), and the master index
\* lists every loaded app exactly once, with its original category.
C10_ProjectBuildsLeaveAppsUnchanged ==
    /\ pc \in {"projects", "resolved", "rejected", "exited"} => allApps = LoadedRecords
    /\ WasWritten(MasterPath) => SameElements(written[MasterPath].apps, LoadedRecords)

\* after a project build that returned null or threw and one that wrote an index
\* with a namespaced app, the master index lists that app under "client"
C10_Witness ==
    /\ pc = "exited" /\ WasWritten(MasterPath)
    /\ ~WasWritten(ProjectPath("sunshine")) /\ WasWritten(ProjectPath("beta"))
    /\ \E i \in 1..Len(written[ProjectPath("beta")].apps) :
          written[ProjectPath("beta")].apps[i].category = "beta:client"
    /\ \E i \in 1..Len(written[MasterPath].apps) :
          written[MasterPath].apps[i].category = "client"

====
